---------------------------- MODULE Spec2Model ----------------------------
(***************************************************************************)
(* A model of the pokerathome python bot: the entity model (state.py),     *)
(* the event decoder and the receive/dispatch loop (net.py), and the       *)
(* validation helpers (util.py).                                           *)
(*                                                                         *)
(* Python values are tagged records; the tag t is the Python type name.    *)
(*   None  [t |-> "NoneType"]          bool [t |-> "bool", b |-> TRUE]     *)
(*   int   [t |-> "int", n |-> 5]      str  [t |-> "str", s |-> "Ah"]      *)
(*   list  [t |-> "list", l |-> <<v1, v2>>]                                *)
(*   dict  [t |-> "dict", items |-> << <<k1, v1>>, <<k2, v2>> >>]          *)
(*         (insertion ordered, as a Python dict is)                        *)
(* Instances of the classes of state.py and message.py are records whose   *)
(* fields are the attributes the constructor assigns.                      *)
(*                                                                         *)
(* A call that may raise returns [ok |-> TRUE, val |-> v] or               *)
(* [ok |-> FALSE, err |-> "<exception class>"].                            *)
(***************************************************************************)
EXTENDS Integers, Sequences, FiniteSets, TLC

Ok(v) == [ok |-> TRUE, val |-> v]
Err(e) == [ok |-> FALSE, err |-> e]

None == [t |-> "NoneType"]
PyBool(b) == [t |-> "bool", b |-> b]
PyInt(n) == [t |-> "int", n |-> n]
PyStr(s) == [t |-> "str", s |-> s]
PyList(l) == [t |-> "list", l |-> l]
PyDict(items) == [t |-> "dict", items |-> items]

\* The characters that occur in the one- and two-character strings of the model.
Alphabet == {"A", "2", "3", "4", "5", "6", "7", "8", "9", "T", "J", "Q", "K",
             "1", "h", "d", "s", "c", "x"}

\* rep[0] and rep[1] of a two-character string.
FirstChar(s) == CHOOSE a \in Alphabet : \E b \in Alphabet : s = a \o b
SecondChar(s) == CHOOSE b \in Alphabet : \E a \in Alphabet : s = a \o b

----------------------------------------------------------------------------
(* util.py *)

\* isinstance(value, typ); bool is a subclass of int.
isinstance(value, typ) == value.t = typ \/ (typ = "int" /\ value.t = "bool")

\* The int a bool or int compares as.
IntValue(value) == IF value.t = "bool" THEN (IF value.b THEN 1 ELSE 0) ELSE value.n

\* TRUE when the assertion passes.
assert_type(value, typ, null_ok) ==
    (null_ok /\ value = None) \/ isinstance(value, typ)

assert_int_nonneg(value) == isinstance(value, "int") /\ IntValue(value) >= 0

----------------------------------------------------------------------------
(* The Python operations the decoder and the constructors use. *)

\* hash(key): list and dict are unhashable, and so is PlayerId, which defines
\* __eq__ and no __hash__ (Python then sets __hash__ to None).
Hashable(key) == key.t \notin {"list", "dict", "PlayerId"}

\* The index of key among the items of a dict, 0 when absent.
KeyIndex(items, key) ==
    IF \E i \in 1..Len(items) : items[i][1] = key
    THEN CHOOSE i \in 1..Len(items) : items[i][1] = key
    ELSE 0

\* obj[key] for a str key.
GetItem(obj, key) ==
    IF obj.t # "dict" THEN Err("TypeError")
    ELSE LET i == KeyIndex(obj.items, PyStr(key))
         IN IF i = 0 THEN Err("KeyError") ELSE Ok(obj.items[i][2])

\* d[key] = value
SetItem(d, key, value) ==
    IF ~Hashable(key) THEN Err("TypeError")
    ELSE LET i == KeyIndex(d.items, key)
         IN IF i = 0 THEN Ok(PyDict(Append(d.items, <<key, value>>)))
            ELSE Ok(PyDict([d.items EXCEPT ![i] = <<key, value>>]))

\* d.pop(key) on the parsed body: the value and the dict without the key.
Pop(obj, key) ==
    IF obj.t = "list" THEN Err("TypeError")
    ELSE IF obj.t # "dict" THEN Err("AttributeError")
    ELSE LET i == KeyIndex(obj.items, PyStr(key))
         IN IF i = 0 THEN Err("KeyError")
            ELSE Ok([value |-> obj.items[i][2],
                     rest |-> PyDict(SubSeq(obj.items, 1, i - 1)
                                   \o SubSeq(obj.items, i + 1, Len(obj.items)))])

\* The elements `for x in obj` visits. A str yields its characters (the model
\* holds strings of at most two characters where one is iterated), a dict its keys.
Iterate(obj) ==
    CASE obj.t = "list" -> Ok(obj.l)
      [] obj.t = "dict" -> Ok([i \in 1..Len(obj.items) |-> obj.items[i][1]])
      [] obj.t = "str" ->
           Ok(IF Len(obj.s) = 0 THEN <<>>
              ELSE IF Len(obj.s) = 1 THEN <<obj>>
              ELSE <<PyStr(FirstChar(obj.s)), PyStr(SecondChar(obj.s))>>)
      [] OTHER -> Err("TypeError")

----------------------------------------------------------------------------
(* state.py *)

\* uuid.UUID accepts several spellings of one identifier (case, braces); the
\* strings of the model and the identifier each denotes.
UuidStrings == {"uuid-a", "UUID-A", "uuid-b", "12345678-1234-5678-1234-567812345678"}
UuidOf(s) ==
    CASE s \in {"uuid-a", "UUID-A"} -> 1
      [] s = "uuid-b" -> 2
      [] s = "12345678-1234-5678-1234-567812345678" -> 0

PlayerId(uuid_str) ==
    CASE uuid_str = None -> Err("TypeError")
      [] uuid_str.t = "str" ->
           IF uuid_str.s \in UuidStrings
           THEN Ok([t |-> "PlayerId", uuid |-> UuidOf(uuid_str.s)])
           ELSE Err("ValueError")
      [] OTHER -> Err("AttributeError")

\* PlayerId.__eq__
PlayerIdEq(a, b) == b.t = "PlayerId" /\ a.uuid = b.uuid

FAKE_PLAYER_ID == PlayerId(PyStr("12345678-1234-5678-1234-567812345678")).val

SuitValues == {"h", "d", "s", "c"}

VALID_VALUES == {"A", "2", "3", "4", "5", "6", "7", "8", "9", "T", "J", "Q", "K"}

\* Card.__init__: the rank character is checked and not kept; _suit is the
\* only attribute assigned.
Card(rep) ==
    IF ~assert_type(rep, "str", FALSE) THEN Err("AssertionError")
    ELSE IF Len(rep.s) # 2 THEN Err("AssertionError")
    ELSE IF FirstChar(rep.s) \notin VALID_VALUES THEN Err("AssertionError")
    ELSE IF SecondChar(rep.s) \notin SuitValues THEN Err("ValueError")
    ELSE Ok([t |-> "Card", suit |-> SecondChar(rep.s)])

PlayerGameState(cards, folded, stack, bet, pot_share) ==
    IF /\ assert_type(cards, "list", FALSE)
       /\ Len(cards.l) = 2
       /\ assert_type(cards.l[1], "Card", TRUE)
       /\ assert_type(cards.l[2], "Card", TRUE)
       /\ assert_type(folded, "bool", FALSE)
       /\ assert_int_nonneg(stack)
       /\ assert_int_nonneg(bet)
       /\ assert_int_nonneg(pot_share)
    THEN Ok([t |-> "PlayerGameState", cards |-> cards, folded |-> folded,
             stack |-> stack, bet |-> bet, pot_share |-> pot_share])
    ELSE Err("AssertionError")

is_all_in(p) == IntValue(p.stack) = 0 /\ IntValue(p.pot_share) > 0

Pot(amount, player_shares) ==
    IF /\ assert_int_nonneg(amount)
       /\ assert_type(player_shares, "dict", FALSE)
       /\ (player_shares.items # <<>> =>
             /\ assert_type(player_shares.items[1][1], "PlayerId", FALSE)
             /\ assert_int_nonneg(player_shares.items[1][2]))
    THEN Ok([t |-> "Pot", amount |-> amount, player_shares |-> player_shares])
    ELSE Err("AssertionError")

\* SharedGameState.__init__ with the board's upper limit off by one.
SharedGameStateUpToSix(pot_total, pots, board_cards, small_blind, big_blind) ==
    IF /\ assert_int_nonneg(pot_total)
       /\ assert_type(pots, "list", FALSE)
       /\ pots.l # <<>>
       /\ assert_type(pots.l[1], "Pot", FALSE)
       /\ assert_type(board_cards, "list", FALSE)
       /\ 3 <= Len(board_cards.l) /\ Len(board_cards.l) <= 6
       /\ assert_type(board_cards.l[1], "Card", FALSE)
       /\ assert_int_nonneg(small_blind)
       /\ assert_int_nonneg(big_blind)
    THEN Ok([t |-> "SharedGameState", pot_total |-> pot_total, pots |-> pots,
             board_cards |-> board_cards, small_blind |-> small_blind,
             big_blind |-> big_blind])
    ELSE Err("AssertionError")

SharedGameState(pot_total, pots, board_cards, small_blind, big_blind) ==
    IF /\ assert_int_nonneg(pot_total)
       /\ assert_type(pots, "list", FALSE)
       /\ pots.l # <<>>
       /\ assert_type(pots.l[1], "Pot", FALSE)
       /\ assert_type(board_cards, "list", FALSE)
       /\ 3 <= Len(board_cards.l) /\ Len(board_cards.l) <= 5
       /\ assert_type(board_cards.l[1], "Card", FALSE)
       /\ assert_int_nonneg(small_blind)
       /\ assert_int_nonneg(big_blind)
    THEN Ok([t |-> "SharedGameState", pot_total |-> pot_total, pots |-> pots,
             board_cards |-> board_cards, small_blind |-> small_blind,
             big_blind |-> big_blind])
    ELSE Err("AssertionError")

GameState(shared_state, player_states, dealer_player, small_blind_player, big_blind_player, active_player) ==
    IF /\ assert_type(shared_state, "SharedGameState", FALSE)
       /\ assert_type(player_states, "dict", FALSE)
       /\ (player_states.items # <<>> =>
             /\ assert_type(player_states.items[1][1], "PlayerId", FALSE)
             /\ assert_type(player_states.items[1][2], "PlayerGameState", FALSE))
       /\ assert_type(dealer_player, "PlayerId", FALSE)
       /\ assert_type(small_blind_player, "PlayerId", FALSE)
       /\ assert_type(big_blind_player, "PlayerId", FALSE)
       /\ assert_type(active_player, "PlayerId", TRUE)
    THEN Ok([t |-> "GameState", shared_state |-> shared_state,
             player_states |-> player_states, dealer_player |-> dealer_player,
             small_blind_player |-> small_blind_player,
             big_blind_player |-> big_blind_player,
             active_player |-> active_player])
    ELSE Err("AssertionError")

----------------------------------------------------------------------------
(* message.py *)

\* ActionType(value): the one member, TODO, has the value "".
ActionType(value) ==
    IF value = PyStr("") THEN Ok([t |-> "ActionType", value |-> ""])
    ELSE Err("ValueError")

GameStateMessage(action_type, game_state, action_requested) ==
    IF /\ assert_type(action_type, "ActionType", FALSE)
       /\ assert_type(game_state, "GameState", FALSE)
       /\ assert_type(action_requested, "bool", FALSE)
    THEN Ok([t |-> "GameStateMessage", action_type |-> action_type,
             game_state |-> game_state, action_requested |-> action_requested])
    ELSE Err("AssertionError")

is_action_requested(m) == m.action_requested.b

----------------------------------------------------------------------------
(* net.py: the event decoder *)

\* Sequencing: the rest of a computation, F, runs on the value of a call that
\* returned; an exception abandons it and is the outcome.
Bind(r, F(_)) == IF r.ok THEN F(r.val) ELSE r

\* [Card(card) for card in elems]: the first failing Card aborts the list.
RECURSIVE CardList(_)
CardList(elems) ==
    IF elems = <<>> THEN Ok(<<>>)
    ELSE Bind(Card(Head(elems)), LAMBDA c :
         Bind(CardList(Tail(elems)), LAMBDA rest :
         Ok(<<c>> \o rest)))

\* [Card(card) for card in obj]
Cards(obj) ==
    Bind(Iterate(obj), LAMBDA elems :
    Bind(CardList(elems), LAMBDA cs :
    Ok(PyList(cs))))

\* One pass of the loop over json["players"], up to the PlayerGameState it
\* builds: the id comes from player_spec, every other value from json, the
\* enclosing payload.
PlayerEntry(json, player_spec) ==
    Bind(GetItem(player_spec, "id"), LAMBDA id :
    Bind(PlayerId(id), LAMBDA player_id :
    Bind(GetItem(json, "holeCards"), LAMBDA card_specs :
    Bind(IF card_specs # None THEN Cards(card_specs)
         ELSE Ok(PyList(<<None, None>>)), LAMBDA player_cards :
    Bind(GetItem(json, "folded"), LAMBDA folded :
    Bind(GetItem(json, "stack"), LAMBDA stack :
    Bind(GetItem(json, "bet"), LAMBDA bet :
    Bind(GetItem(json, "pot_share"), LAMBDA pot_share :
    Bind(PlayerGameState(player_cards, folded, stack, bet, pot_share), LAMBDA state :
    Ok([player_id |-> player_id, state |-> state]))))))))))

\* The loop over json["players"]: player_states[player_id] = PlayerGameState(...)
RECURSIVE PlayerStates(_, _, _)
PlayerStates(json, player_specs, player_states) ==
    IF player_specs = <<>> THEN Ok(player_states)
    ELSE Bind(PlayerEntry(json, Head(player_specs)), LAMBDA e :
         Bind(SetItem(player_states, e.player_id, e.state), LAMBDA stored :
         PlayerStates(json, Tail(player_specs), stored)))

\* SharedGameState(pot_total=json["pot"], pots=[Pot(...)], board_cards=[...], ...)
SharedState(json) ==
    Bind(GetItem(json, "pot"), LAMBDA pot_total :
    Bind(GetItem(json, "pot"), LAMBDA amount :
    Bind(Pot(amount, PyDict(<<>>)), LAMBDA pot :
    Bind(GetItem(json, "communityCards"), LAMBDA community :
    Bind(Cards(community), LAMBDA board_cards :
    Bind(GetItem(json, "smallBlindAmount"), LAMBDA small_blind :
    Bind(GetItem(json, "bigBlindAmount"), LAMBDA big_blind :
    SharedGameState(pot_total, PyList(<<pot>>), board_cards, small_blind, big_blind))))))))

parse_game_state(json) ==
    Bind(GetItem(json, "players"), LAMBDA players :
    Bind(Iterate(players), LAMBDA player_specs :
    Bind(PlayerStates(json, player_specs, PyDict(<<>>)), LAMBDA player_states :
    Bind(SharedState(json), LAMBDA shared_state :
    Bind(GetItem(json, "activeplayerId"), LAMBDA active :
    Bind(PlayerId(active), LAMBDA active_player :
    GameState(shared_state, player_states, FAKE_PLAYER_ID, FAKE_PLAYER_ID,
              FAKE_PLAYER_ID, active_player)))))))

parse_game_state_message(json) ==
    Bind(GetItem(json, "action"), LAMBDA action :
    Bind(ActionType(action), LAMBDA action_type :
    Bind(GetItem(json, "game_state"), LAMBDA gs :
    Bind(parse_game_state(gs), LAMBDA game_state :
    Bind(GetItem(json, "actionRequested"), LAMBDA action_requested :
    GameStateMessage(action_type, game_state, action_requested))))))

----------------------------------------------------------------------------
(* The payloads the transport delivers. *)

\* The most messages one connection delivers.
MaxMsgs == 3
\* The longest players list of a payload.
MaxPlayers == 2
\* The longest communityCards list of a payload.
MaxBoard == 6

\* {keys[1]: values[1], ...}
MkDict(keys, values) == PyDict([i \in 1..Len(keys) |-> <<PyStr(keys[i]), values[i]>>])

\* d with d[key] = value, and d without key, for a key d holds.
With(d, key, value) == SetItem(d, PyStr(key), value).val
Without(d, key) == Pop(d, key).val.rest

RankSeq == <<"A", "K", "2", "T", "9", "3", "4", "5", "6", "7", "8", "J", "Q">>
SuitSeq == <<"h", "d", "s", "c">>
\* The i-th card code of a deck: "Ah", "Kd", "2s", "Tc", "9h", ...
Code(i) == PyStr(RankSeq[((i - 1) % 13) + 1] \o SuitSeq[((i - 1) % 4) + 1])
CodeList(n) == PyList([i \in 1..n |-> Code(i)])

UuidA == PyStr("uuid-a")
UuidB == PyStr("uuid-b")

\* {"id": id}, the player entry of the protocol as the decoder reads it.
BarePlayer(id) == MkDict(<<"id">>, <<id>>)
\* A player entry that carries the player's own values.
FullPlayer(id, stack) ==
    MkDict(<<"id", "holeCards", "folded", "stack", "bet", "pot_share">>,
           <<id, None, PyBool(FALSE), stack, PyInt(0), PyInt(0)>>)

PlayerSpecs ==
    {BarePlayer(UuidA), FullPlayer(UuidA, PyInt(100)), FullPlayer(UuidB, PyInt(50)),
     BarePlayer(PyStr("zz")), PyDict(<<>>)}

PlayerLists == UNION {[1..n -> PlayerSpecs] : n \in 0..MaxPlayers}

GSKeys == <<"players", "holeCards", "folded", "stack", "bet", "pot_share", "pot",
            "communityCards", "smallBlindAmount", "bigBlindAmount", "activeplayerId">>

\* The game_state of the scenario payload, around a players list.
BaseGS(players) ==
    MkDict(GSKeys,
           <<PyList(players), None, PyBool(FALSE), PyInt(100), PyInt(0), PyInt(0),
             PyInt(0), CodeList(3), PyInt(1), PyInt(2), UuidA>>)

BasePlayers == {<<>>, <<BarePlayer(UuidA)>>}

\* Values of the wrong type, sign or content for most keys.
Junk == {None, PyInt(-1), PyBool(TRUE), PyStr("Ah"), PyStr("")}

BadBoards ==
    {PyList(<<Code(1), PyStr("1h"), Code(3)>>), PyList(<<Code(1), PyStr("Kx"), Code(3)>>),
     PyList(<<Code(1), PyInt(5), Code(3)>>)}

GameStates ==
    {BaseGS(pl) : pl \in PlayerLists}
    \cup {With(BaseGS(pl), GSKeys[k], v) : pl \in BasePlayers, k \in 1..Len(GSKeys), v \in Junk}
    \cup {Without(BaseGS(pl), GSKeys[k]) : pl \in BasePlayers, k \in 1..Len(GSKeys)}
    \cup {With(BaseGS(pl), "communityCards", b) :
            pl \in BasePlayers, b \in {CodeList(n) : n \in 0..MaxBoard} \cup BadBoards}
    \cup {With(BaseGS(pl), "holeCards", CodeList(n)) : pl \in BasePlayers, n \in 2..3}
    \cup {With(BaseGS(pl), "activeplayerId", PyStr("UUID-A")) : pl \in BasePlayers}

MsgKeys == <<"event", "action", "actionRequested", "game_state">>

Message(action_requested, game_state) ==
    MkDict(MsgKeys, <<PyStr("gameState"), PyStr(""), action_requested, game_state>>)

BaseMessage == Message(PyBool(TRUE), BaseGS(<<>>))

\* The text of a frame: a JSON document, or text that is none.
Wire(value) == [json |-> TRUE, value |-> value]
NotJson == [json |-> FALSE]

Bodies ==
    {Wire(Message(PyBool(TRUE), g)) : g \in GameStates}
    \cup {Wire(Message(PyBool(FALSE), BaseGS(pl))) : pl \in BasePlayers}
    \cup {Wire(With(BaseMessage, MsgKeys[k], v)) :
            k \in 1..Len(MsgKeys), v \in Junk \cup {PyStr("ping")}}
    \cup {Wire(Without(BaseMessage, MsgKeys[k])) : k \in 1..Len(MsgKeys)}
    \cup {Wire(MkDict(<<"event">>, <<PyStr("ping")>>)), Wire(PyList(<<>>)), NotJson}

----------------------------------------------------------------------------
(* net.py: do_client *)

VARIABLES
    pc,         \* where do_client is: "start", "recv" (in ws.recv), "handle", "ended"
    nrecv,      \* how many frames ws.recv has returned
    body,       \* the local `body`: the latest frame
    forwarded,  \* the arrival numbers of the frames handed to the consumer, in call order
    lastMsg,    \* the argument of the latest bot.handle_game_state_message call
    warned,     \* the arrival numbers of the frames logger.warning reported
    raised,     \* the exception that left do_client, with the frame it came from
    endCause,   \* why do_client ended
    \* a caller of the constructors and of the decoder
    args,       \* the call and its arguments
    result,     \* what the call returned or raised
    made,       \* the instances that exist: those a constructor returned
    \* a caller that keeps references to the containers it passes and gets
    heap,       \* the list and dict objects, by address
    entity,     \* the entity built: its class and the address its attribute holds
    built,      \* what the entity's accessor returned right after construction
    held,       \* the addresses the caller holds: constructor arguments, accessor results
    mutations   \* how many mutations the caller has made

\* json.loads(body)
json_loads(b) == IF b.json THEN Ok(b.value) ELSE Err("JSONDecodeError")

\* What one pass of the loop does when a call in it raises.
Raises(r) == [kind |-> "raise", err |-> r.err]

\* The loop body with the consumer called only when an action is requested:
\* if event == "gameState" and the message asks for an action: ... else: ...
RouteWhenRequested(popped) ==
    IF popped.value = PyStr("gameState")
    THEN LET message == parse_game_state_message(popped.rest)
         IN IF ~message.ok THEN Raises(message)
            ELSE IF is_action_requested(message.val)
                 THEN [kind |-> "forward", msg |-> message.val]
                 ELSE [kind |-> "warn", event |-> popped.value]
    ELSE [kind |-> "warn", event |-> popped.value]

\* The loop body with an unknown event raising instead of being reported.
RouteStrict(popped) ==
    IF popped.value = PyStr("gameState")
    THEN LET message == parse_game_state_message(popped.rest)
         IN IF message.ok THEN [kind |-> "forward", msg |-> message.val]
            ELSE Raises(message)
    ELSE [kind |-> "raise", err |-> "ValueError"]

\* if event == "gameState": ... else: ...
Route(popped) ==
    IF popped.value = PyStr("gameState")
    THEN LET message == parse_game_state_message(popped.rest)
         IN IF message.ok THEN [kind |-> "forward", msg |-> message.val]
            ELSE Raises(message)
    ELSE [kind |-> "warn", event |-> popped.value]

\* The body of the loop after ws.recv returns: what it does with one frame.
Dispatch(b) ==
    LET data == json_loads(b)
    IN IF ~data.ok THEN Raises(data)
       ELSE LET event == Pop(data.val, "event")
            IN IF ~event.ok THEN Raises(event) ELSE Route(event.val)

NoBody == [json |-> FALSE, unset |-> TRUE]
NoMsg == [t |-> "unset"]
NoRaise == [idx |-> 0, err |-> ""]

clientVars == <<pc, nrecv, body, forwarded, lastMsg, warned, raised, endCause>>
callVars == <<args, result, made>>
aliasVars == <<heap, entity, built, held, mutations>>
vars == <<clientVars, callVars, aliasVars>>

NoCall == [op |-> "none"]
NoResult == [ok |-> FALSE, err |-> "not called"]
NoEntity == [class |-> "none", refs |-> <<>>]

\* The variables of do_client, of the constructor calls, of the aliasing
\* caller, before any of it runs.
ClientIdle ==
    /\ pc = "start"
    /\ nrecv = 0
    /\ body = NoBody
    /\ forwarded = <<>>
    /\ lastMsg = NoMsg
    /\ warned = <<>>
    /\ raised = NoRaise
    /\ endCause = "none"
CallIdle == args = NoCall /\ result = NoResult /\ made = {}
AliasIdle ==
    heap = <<>> /\ entity = NoEntity /\ built = None /\ held = {} /\ mutations = 0

Init == ClientIdle /\ CallIdle /\ AliasIdle

\* async with connect(host) as ws
Connect ==
    /\ pc = "start"
    /\ pc' = "recv"
    /\ UNCHANGED <<nrecv, body, forwarded, lastMsg, warned, raised, endCause>>
    /\ UNCHANGED <<callVars, aliasVars>>

\* connect(host) raises
ConnectFails ==
    /\ pc = "start"
    /\ pc' = "ended"
    /\ endCause' = "transport error"
    /\ UNCHANGED <<nrecv, body, forwarded, lastMsg, warned, raised>>
    /\ UNCHANGED <<callVars, aliasVars>>

\* The receive with the previous frame's pass still running: the next frame
\* replaces it.
RecvEager(b) ==
    /\ pc \in {"recv", "handle"}
    /\ nrecv < MaxMsgs
    /\ body' = b
    /\ nrecv' = nrecv + 1
    /\ pc' = "handle"
    /\ UNCHANGED <<forwarded, lastMsg, warned, raised, endCause>>
    /\ UNCHANGED <<callVars, aliasVars>>

\* body = await ws.recv()
Recv(b) ==
    /\ pc = "recv"
    /\ nrecv < MaxMsgs
    /\ body' = b
    /\ nrecv' = nrecv + 1
    /\ pc' = "handle"
    /\ UNCHANGED <<forwarded, lastMsg, warned, raised, endCause>>
    /\ UNCHANGED <<callVars, aliasVars>>

\* ws.recv() raises ConnectionClosedOK: the peer closed the connection.
ConnectionClosed ==
    /\ pc = "recv"
    /\ pc' = "ended"
    /\ endCause' = "connection closed"
    /\ UNCHANGED <<nrecv, body, forwarded, lastMsg, warned, raised>>
    /\ UNCHANGED <<callVars, aliasVars>>

\* ws.recv() raises ConnectionClosedError or an I/O error.
TransportError ==
    /\ pc = "recv"
    /\ pc' = "ended"
    /\ endCause' = "transport error"
    /\ UNCHANGED <<nrecv, body, forwarded, lastMsg, warned, raised>>
    /\ UNCHANGED <<callVars, aliasVars>>

\* What the pass does to the state of the loop: the consumer call (which
\* returns), the warning, or the exception that leaves do_client.
Outcome(o) ==
    CASE o.kind = "forward" ->
           /\ forwarded' = Append(forwarded, nrecv)
           /\ lastMsg' = o.msg
           /\ pc' = "recv"
           /\ UNCHANGED <<warned, raised, endCause>>
      [] o.kind = "warn" ->
           /\ warned' = Append(warned, nrecv)
           /\ pc' = "recv"
           /\ UNCHANGED <<forwarded, lastMsg, raised, endCause>>
      [] o.kind = "raise" ->
           /\ raised' = [idx |-> nrecv, err |-> o.err]
           /\ pc' = "ended"
           /\ endCause' = "exception in the loop body"
           /\ UNCHANGED <<forwarded, lastMsg, warned>>

\* The rest of one pass of the loop, from json.loads on.
Handle ==
    /\ pc = "handle"
    /\ Outcome(Dispatch(body))
    /\ UNCHANGED <<nrecv, body, callVars, aliasVars>>

Next ==
    \/ Connect
    \/ ConnectFails
    \/ \E b \in Bodies : Recv(b)
    \/ ConnectionClosed
    \/ TransportError
    \/ Handle

Spec == Init /\ [][Next]_vars

----------------------------------------------------------------------------
(* What the claims about do_client speak of. *)

\* The pass of the loop over the latest frame is over.
Handled == nrecv > 0 /\ pc # "handle"

\* The latest frame was handed to the consumer, was reported by a warning,
\* left do_client as an exception.
LastForwarded == forwarded # <<>> /\ forwarded[Len(forwarded)] = nrecv
LastWarned == warned # <<>> /\ warned[Len(warned)] = nrecv
LastRaised == raised.idx = nrecv

\* The frame is a JSON object with an "event" key; its tag; the rest of it.
HasEvent(b) == b.json /\ b.value.t = "dict" /\ KeyIndex(b.value.items, PyStr("event")) # 0
EventTag(b) == GetItem(b.value, "event").val
IsGameState(b) == HasEvent(b) /\ EventTag(b) = PyStr("gameState")
Decoded(b) == parse_game_state_message(Without(b.value, "event"))

\* dict d holds key, and d[key].
Has(d, key) == d.t = "dict" /\ KeyIndex(d.items, PyStr(key)) # 0
At(d, key) == GetItem(d, key).val

\* The wire format of spec section 6 and the entity rules of section 3.
IsAmount(v) == v.t = "int" /\ v.n >= 0
IsUuidStr(v) == v.t = "str" /\ v.s \in UuidStrings
IsCode(v) ==
    /\ v.t = "str"
    /\ \E r \in VALID_VALUES, u \in SuitValues : v.s = r \o u
IsCodeList(v, lo, hi) ==
    /\ v.t = "list"
    /\ Len(v.l) \in lo..hi
    /\ \A i \in 1..Len(v.l) : IsCode(v.l[i])
WellFormedGameState(g) ==
    /\ g.t = "dict"
    /\ \A k \in 1..Len(GSKeys) : Has(g, GSKeys[k])
    /\ At(g, "players").t = "list"
    /\ \A i \in 1..Len(At(g, "players").l) :
          LET e == At(g, "players").l[i] IN Has(e, "id") /\ IsUuidStr(At(e, "id"))
    /\ (At(g, "holeCards") = None \/ IsCodeList(At(g, "holeCards"), 2, 2))
    /\ At(g, "folded").t = "bool"
    /\ \A k \in {"stack", "bet", "pot_share", "pot", "smallBlindAmount", "bigBlindAmount"} :
          IsAmount(At(g, k))
    /\ IsCodeList(At(g, "communityCards"), 3, 5)
    /\ IsUuidStr(At(g, "activeplayerId"))
WellFormed(b) ==
    /\ IsGameState(b)
    /\ \A k \in 1..Len(MsgKeys) : Has(b.value, MsgKeys[k])
    /\ At(b.value, "action") = PyStr("")
    /\ At(b.value, "actionRequested").t = "bool"
    /\ WellFormedGameState(At(b.value, "game_state"))

PlayersOf(b) == At(At(b.value, "game_state"), "players").l

----------------------------------------------------------------------------
(* The claims about do_client, checked under Spec. *)

(* C1, as stated: the consumer is called for a frame if and only if the    *)
(* frame's tag is "gameState", it decodes, and its actionRequested is      *)
(* true; a decoded gameState frame with actionRequested false is not       *)
(* handed to the consumer.                                                 *)
C1_ForwardedIffActionRequested ==
    Handled =>
        (LastForwarded <=>
            /\ IsGameState(body)
            /\ Decoded(body).ok
            /\ At(body.value, "actionRequested") = PyBool(TRUE))

(* C1, amended: the consumer is called for a frame if and only if the      *)
(* frame's tag is "gameState" and it decodes, whatever actionRequested is; *)
(* the message handed over is the decoded frame and carries the flag.      *)
C1_ForwardedIffDecoded ==
    Handled =>
        /\ LastForwarded <=> (IsGameState(body) /\ Decoded(body).ok)
        /\ LastForwarded =>
              /\ lastMsg = Decoded(body).val
              /\ lastMsg.action_requested = At(body.value, "actionRequested")

\* A decoded gameState frame with actionRequested false reached the consumer.
C1_Witness ==
    /\ Handled
    /\ LastForwarded
    /\ At(body.value, "actionRequested") = PyBool(FALSE)
    /\ ~is_action_requested(lastMsg)

(* C2: do_client ends only when the connection closes or the transport     *)
(* raises; no received frame, whatever it holds, ends the loop.            *)
C2_EndsOnlyOnTransport ==
    (pc = "ended" /\ HasEvent(body)) =>
        endCause \in {"connection closed", "transport error"}

(* C3: a frame whose tag is anything but "gameState" raises nothing, is    *)
(* not handed to the consumer, changes nothing the loop tracks (it is      *)
(* reported by one warning), and the loop goes on to the next receive.     *)
C3_UnknownTagSkipped ==
    [][(pc = "handle" /\ HasEvent(body) /\ EventTag(body) # PyStr("gameState")) =>
          /\ pc' = "recv"
          /\ forwarded' = forwarded
          /\ lastMsg' = lastMsg
          /\ raised' = raised
          /\ endCause' = endCause
          /\ warned' = Append(warned, nrecv)]_vars

\* A "ping" frame that followed a forwarded frame was skipped, and the loop
\* is receiving again.
C3_Witness ==
    /\ pc = "recv"
    /\ HasEvent(body) /\ EventTag(body) = PyStr("ping")
    /\ LastWarned
    /\ forwarded = <<1>>
    /\ nrecv = 2

(* C4: a gameState frame in which a required key is missing, a value has   *)
(* the wrong shape, or a value fails the entity rules does not decode: no  *)
(* message is built from it and the consumer is not called with it.        *)
C4_MalformedNeverDecodes ==
    (Handled /\ IsGameState(body) /\ ~WellFormed(body)) =>
        /\ ~Decoded(body).ok
        /\ ~LastForwarded

Increasing(q) == \A i, j \in 1..Len(q) : i < j => q[i] < q[j]
Outcomes(i) ==
    (IF \E k \in 1..Len(forwarded) : forwarded[k] = i THEN 1 ELSE 0)
    + (IF \E k \in 1..Len(warned) : warned[k] = i THEN 1 ELSE 0)
    + (IF raised.idx = i THEN 1 ELSE 0)
(* C5: frames are handled one at a time in arrival order: the frames       *)
(* handed to the consumer are a subsequence of the frames received, in     *)
(* order; a frame's pass is over before the next frame is received; and    *)
(* every frame is handed over, reported by a warning, or raised, never     *)
(* dropped.                                                                *)
C5_InOrderNoDrop ==
    /\ Increasing(forwarded)
    /\ Increasing(warned)
    /\ \A k \in 1..Len(forwarded) : forwarded[k] \in 1..nrecv
    /\ \A k \in 1..Len(warned) : warned[k] \in 1..nrecv
    /\ raised.idx \in 0..nrecv
    /\ \A i \in 1..nrecv : Outcomes(i) = (IF i = nrecv /\ pc = "handle" THEN 0 ELSE 1)
    /\ (LastForwarded => lastMsg = Decoded(body).val)

\* Three frames arrived; the first and the third were handed over, the
\* second was reported.
C5_Witness ==
    /\ nrecv = 3
    /\ forwarded = <<1, 3>>
    /\ warned = <<2>>
    /\ pc = "recv"

IsScenario(b) ==
    /\ WellFormed(b)
    /\ Len(PlayersOf(b)) = 1
    /\ At(At(b.value, "game_state"), "holeCards") = None
    /\ At(At(b.value, "game_state"), "folded") = PyBool(FALSE)
    /\ Len(At(At(b.value, "game_state"), "communityCards").l) = 3
    /\ At(At(b.value, "game_state"), "activeplayerId") = At(PlayersOf(b)[1], "id")
(* C6: the scenario payload (one player entry with a valid id, holeCards   *)
(* null, folded false, nonnegative amounts, three community cards, and     *)
(* activeplayerId that player's id) decodes to a GameState with exactly    *)
(* that player, holding two unknown hole cards, a 3-card board, and that   *)
(* player active.                                                          *)
C6_ScenarioDecodes ==
    (Handled /\ IsScenario(body)) =>
        /\ LastForwarded
        /\ LET gs == lastMsg.game_state
               id == PlayerId(At(PlayersOf(body)[1], "id")).val
           IN /\ Len(gs.player_states.items) = 1
              /\ PlayerIdEq(gs.player_states.items[1][1], id)
              /\ gs.player_states.items[1][2].cards = PyList(<<None, None>>)
              /\ Len(gs.shared_state.board_cards.l) = 3
              /\ PlayerIdEq(gs.active_player, id)

HasOwnValues(e) ==
    \A k \in {"holeCards", "folded", "stack", "bet", "pot_share"} : Has(e, k)
(* C7: with several players in a payload, the state built for each player  *)
(* holds the values of that player's own entry, so two players of one      *)
(* payload can have different stacks.                                      *)
C7_PerPlayerValues ==
    (Handled /\ WellFormed(body) /\ Len(PlayersOf(body)) >= 2
        /\ \A i \in 1..Len(PlayersOf(body)) : HasOwnValues(PlayersOf(body)[i])) =>
        \A i \in 1..Len(PlayersOf(body)) :
            LET e == PlayerEntry(At(body.value, "game_state"), PlayersOf(body)[i])
            IN /\ e.ok
               /\ e.val.state.stack = At(PlayersOf(body)[i], "stack")
               /\ e.val.state.folded = At(PlayersOf(body)[i], "folded")
               /\ e.val.state.bet = At(PlayersOf(body)[i], "bet")
               /\ e.val.state.pot_share = At(PlayersOf(body)[i], "pot_share")

----------------------------------------------------------------------------
(* A caller of Card, of SharedGameState and of parse_game_state: one call, *)
(* its arguments drawn from the sets below.                                *)

Reps ==
    {PyStr(r \o u) : r \in VALID_VALUES \cup {"1"}, u \in SuitValues \cup {"x"}}
    \cup {PyStr(""), PyStr("A"), PyStr("Ahh"), PyInt(5), None}

Amounts == {PyInt(0), PyInt(5), PyInt(-1), PyBool(TRUE), None}

\* [Card(code) for code in the first n codes of the deck]
CardObjects(n) == PyList([i \in 1..n |-> Card(Code(i)).val])

Pot0 == Pot(PyInt(0), PyDict(<<>>)).val

CardCalls == {[op |-> "Card", rep1 |-> a, rep2 |-> b] : a, b \in Reps}

SharedCalls ==
    {[op |-> "SharedGameState", pot_total |-> p, pots |-> q, board_cards |-> c,
      small_blind |-> sb, big_blind |-> bb] :
        p \in Amounts,
        q \in {PyList(<<>>), PyList(<<Pot0>>), PyList(<<None>>)},
        c \in {CardObjects(n) : n \in 0..MaxBoard} \cup {PyList(<<None, None, None>>)},
        sb \in Amounts, bb \in Amounts}

DecodeCalls == {[op |-> "parse_game_state", json |-> g] : g \in GameStates}

CallInit ==
    /\ args \in CardCalls \cup SharedCalls \cup DecodeCalls
    /\ result = NoResult
    /\ made = {}
    /\ ClientIdle
    /\ AliasIdle

\* The instances a call leaves behind: the value it returned, none when it raised.
Returned(r) == IF r.ok THEN {r.val} ELSE {}

\* Card(rep1), Card(rep2)
CallCard ==
    /\ args.op = "Card"
    /\ result = NoResult
    /\ LET c1 == Card(args.rep1)
           c2 == Card(args.rep2)
       IN /\ result' = [ok |-> c1.ok /\ c2.ok, first |-> c1, second |-> c2]
          /\ made' = Returned(c1) \cup Returned(c2)
    /\ UNCHANGED <<args, clientVars, aliasVars>>

\* SharedGameState(pot_total=..., pots=..., board_cards=..., ...)
CallSharedGameState ==
    /\ args.op = "SharedGameState"
    /\ result = NoResult
    /\ result' = SharedGameState(args.pot_total, args.pots, args.board_cards,
                                 args.small_blind, args.big_blind)
    /\ made' = Returned(result')
    /\ UNCHANGED <<args, clientVars, aliasVars>>

\* parse_game_state(json): the GameState and the SharedGameState it holds.
CallParseGameState ==
    /\ args.op = "parse_game_state"
    /\ result = NoResult
    /\ result' = parse_game_state(args.json)
    /\ made' = IF result'.ok THEN {result'.val, result'.val.shared_state} ELSE {}
    /\ UNCHANGED <<args, clientVars, aliasVars>>

CallNext == CallCard \/ CallSharedGameState \/ CallParseGameState

SpecCall == CallInit /\ [][CallNext]_vars

Called == result # NoResult

----------------------------------------------------------------------------
(* The claims about the constructors, checked under SpecCall. *)

\* The other arguments of a SharedGameState call are valid.
OtherArgsValid ==
    /\ IsAmount(args.pot_total)
    /\ args.pots.l # <<>> /\ args.pots.l[1].t = "Pot"
    /\ \A i \in 1..Len(args.board_cards.l) : args.board_cards.l[i].t = "Card"
    /\ IsAmount(args.small_blind)
    /\ IsAmount(args.big_blind)
\* A payload that is well formed but for the length of its communityCards.
WellFormedButBoard(g) ==
    /\ Has(g, "communityCards")
    /\ IsCodeList(At(g, "communityCards"), 0, MaxBoard + 1)
    /\ WellFormedGameState(With(g, "communityCards", CodeList(3)))
C10_CardRoundTrip ==
    (Called /\ args.op = "Card") =>
        /\ result.first.ok <=> IsCode(args.rep1)
        /\ result.second.ok <=> IsCode(args.rep2)
        /\ (IsCode(args.rep1) /\ IsCode(args.rep2) /\ args.rep1 # args.rep2) =>
              result.first.val # result.second.val

----------------------------------------------------------------------------
(* A caller that builds one entity from containers it keeps references to, *)
(* calls the entity's accessors, and mutates the containers it holds.      *)
(* heap[a] is the list or dict at address a.                               *)

\* The most list and dict objects of a run.
MaxObjs == 3
\* The longest list a mutation grows.
MaxLen == 4
\* The most mutations of a run.
MaxMutations == 2

Classes == {"PlayerGameState", "Pot", "SharedGameState", "GameState"}

\* The container-valued attributes of a class, in constructor order:
\* _cards; _player_shares; _pots, _board_cards; _player_states.
ContainerAttrs(class) ==
    CASE class = "PlayerGameState" -> <<"cards">>
      [] class = "Pot" -> <<"player_shares">>
      [] class = "SharedGameState" -> <<"pots", "board_cards">>
      [] class = "GameState" -> <<"player_states">>

\* The constructor, called with the containers and with valid other arguments.
Construct(class, containers) ==
    CASE class = "PlayerGameState" ->
           PlayerGameState(containers[1], PyBool(FALSE), PyInt(100), PyInt(0), PyInt(0))
      [] class = "Pot" -> Pot(PyInt(0), containers[1])
      [] class = "SharedGameState" ->
           SharedGameState(PyInt(0), containers[1], containers[2], PyInt(1), PyInt(2))
      [] class = "GameState" ->
           GameState(SharedGameState(PyInt(0), PyList(<<Pot0>>), CardObjects(3),
                                     PyInt(1), PyInt(2)).val,
                     containers[1], FAKE_PLAYER_ID, FAKE_PLAYER_ID, FAKE_PLAYER_ID, None)

\* Whether the constructor assigns a copy of the container it is passed
\* (self._player_shares = dict(player_shares)) or the container itself
\* (self._cards = cards, self._pots = pots, self._board_cards = board_cards,
\* self._player_states = player_states).
StoresCopy(class) == class = "Pot"

\* The containers the caller starts from.
Containers ==
    {PyList(<<None, None>>), CardObjects(3), PyList(<<Pot0>>), PyDict(<<>>)}

\* What get_cards, get_player_shares, get_pots and get_board_cards,
\* get_player_states return now: list(self._x), dict(self._x).
AccessorValues(e, h) == [k \in 1..Len(e.refs) |-> h[e.refs[k]]]

AliasInit ==
    /\ heap = <<>>
    /\ entity = NoEntity
    /\ built = None
    /\ held = {}
    /\ mutations = 0
    /\ ClientIdle
    /\ CallIdle

\* cards = [...], player_shares = {...}
NewContainer(c) ==
    /\ Len(heap) < MaxObjs
    /\ heap' = Append(heap, c)
    /\ held' = held \cup {Len(heap) + 1}
    /\ UNCHANGED <<entity, built, mutations, clientVars, callVars>>

\* entity = Class(container arguments at refs); a constructor that raises
\* leaves nothing behind.
NewEntity(class, refs) ==
    /\ entity = NoEntity
    /\ Len(refs) = Len(ContainerAttrs(class))
    /\ Construct(class, [k \in 1..Len(refs) |-> heap[refs[k]]]).ok
    /\ IF StoresCopy(class)
       THEN /\ Len(heap) + Len(refs) <= MaxObjs
            /\ heap' = heap \o [k \in 1..Len(refs) |-> heap[refs[k]]]
            /\ entity' = [class |-> class,
                          refs |-> [k \in 1..Len(refs) |-> Len(heap) + k]]
       ELSE /\ heap' = heap
            /\ entity' = [class |-> class, refs |-> refs]
    /\ built' = AccessorValues(entity', heap')
    /\ UNCHANGED <<held, mutations, clientVars, callVars>>

\* x = entity.get_...(): a new list or dict with the attribute's elements.
Get(k) ==
    /\ entity # NoEntity
    /\ k \in 1..Len(entity.refs)
    /\ Len(heap) < MaxObjs
    /\ heap' = Append(heap, heap[entity.refs[k]])
    /\ held' = held \cup {Len(heap) + 1}
    /\ UNCHANGED <<entity, built, mutations, clientVars, callVars>>

\* The container after x.append(None), x.pop(), x.clear(), x["x"] = 1.
Mutated(obj, m) ==
    CASE m = "append" -> PyList(Append(obj.l, None))
      [] m = "pop" -> PyList(SubSeq(obj.l, 1, Len(obj.l) - 1))
      [] m = "clear" -> IF obj.t = "list" THEN PyList(<<>>) ELSE PyDict(<<>>)
      [] m = "setitem" -> SetItem(obj, PyStr("x"), PyInt(1)).val
CanMutate(obj, m) ==
    CASE m = "append" -> obj.t = "list" /\ Len(obj.l) < MaxLen
      [] m = "pop" -> obj.t = "list" /\ obj.l # <<>>
      [] m = "clear" -> TRUE
      [] m = "setitem" -> obj.t = "dict"

\* The caller mutates a container it holds.
Mutate(a, m) ==
    /\ a \in held
    /\ mutations < MaxMutations
    /\ CanMutate(heap[a], m)
    /\ heap' = [heap EXCEPT ![a] = Mutated(heap[a], m)]
    /\ mutations' = mutations + 1
    /\ UNCHANGED <<entity, built, held, clientVars, callVars>>

AliasNext ==
    \/ \E c \in Containers : NewContainer(c)
    \/ \E class \in Classes, refs \in (UNION {[1..n -> held] : n \in 1..2}) :
          NewEntity(class, refs)
    \/ \E k \in 1..2 : Get(k)
    \/ \E a \in held, m \in {"append", "pop", "clear", "setitem"} : Mutate(a, m)

SpecAlias == AliasInit /\ [][AliasNext]_vars

----------------------------------------------------------------------------
(* The claim about the entities, checked under SpecAlias. *)

(* C8: an entity is immutable once constructed: nothing a caller can do    *)
(* after the constructor returns, neither mutating a container an accessor *)
(* returned nor mutating the container it passed to the constructor,       *)
(* changes what the entity's accessors return.                             *)
C8_Immutable ==
    entity # NoEntity => AccessorValues(entity, heap) = built

=============================================================================
